---------------------------- MODULE Spec2Model ----------------------------
(***************************************************************************)
(* ZettlrVirtualDirectory (source/main/zettlr-virtual-directory.js).       *)
(*                                                                         *)
(* A JavaScript string is a sequence of characters (one-character TLA+     *)
(* strings); a path is such a sequence whose elements are path segments.   *)
(* A JavaScript value handed to add() is a record [type, s]: typeof and    *)
(* the string content.  The sidecar file is [exists, content]; content is  *)
(* the JSON text as a sequence of tokens.                                  *)
(***************************************************************************)
EXTENDS Naturals, Sequences, FiniteSets, TLC

VARIABLES
  _virtualDirectories, \* this._virtualDirectories: the record list
  _realDirectories,    \* this._realDirectories: the derived view
  disk,                \* the sidecar file at this._file
  manager,             \* "constructed", or "failed" when the constructor threw
  hashTable,           \* the hash function of ../common/zettlr-helpers.js
  last                 \* the last call: its arguments and its outcome

vars == <<_virtualDirectories, _realDirectories, disk, manager, hashTable, last>>

----------------------------------------------------------------------------
(* Bounds and input sets *)

\* cap on the number of stored paths of one record (add is not bounded)
MaxFiles == 2

Notes == <<"N", "o", "t", "e", "s">>
notes == <<"n", "o", "t", "e", "s">>
XName == <<"X">>

Str(s) == [type |-> "string", s |-> s]
Num42 == [type |-> "number", s |-> <<"4", "2">>]

NameStrings == {Notes, notes, XName}
NameArgs == {Str(s) : s \in NameStrings} \cup {Num42}

\* the parent directory's path, this._directory.getPath()
DirPath == <<"/root">>
PA == <<"/root", "/a.md">>
PB == <<"/root", "/b.md">>
PC == <<"/other", "/c.md">>
Paths == {PA, PB, PC}

\* the files arguments of add()
FileArgs == {<<>>, <<PA>>, <<PC>>, <<PB, PA>>, <<PC, PA>>}
\* the hashes arguments of remove(): references to files
RefArgs == {<<>>, <<PA>>, <<PB, PA>>}

HashValues == {"h0", "h1", "h2"}
\* the hash functions considered: one that tells all names apart, one with
\* a collision between two names that differ in more than case
InjectiveHash ==
  (Notes :> "h0") @@ (notes :> "h1") @@ (XName :> "h2") @@ (Num42.s :> "h1")
CollidingHash ==
  (Notes :> "h0") @@ (notes :> "h1") @@ (XName :> "h0") @@ (Num42.s :> "h1")
HashTables == {InjectiveHash, CollidingHash}

----------------------------------------------------------------------------
(* Strings *)

ToLowerChar(c) ==
  CASE c = "N" -> "n"
    [] c = "X" -> "x"
    [] OTHER -> c

\* String.prototype.toLowerCase
toLowerCase(s) == [i \in 1..Len(s) |-> ToLowerChar(s[i])]

\* s.indexOf(t) == 0
StartsWith(s, t) == Len(t) <= Len(s) /\ SubSeq(s, 1, Len(t)) = t

\* this._root is never assigned: it is undefined, and String.prototype.indexOf
\* and String.prototype.replace coerce it to the text "undefined"
RootAsString == <<"undefined">>

_isAbsolute(p) == StartsWith(p, RootAsString)

\* p.replace(this._root, '') is only reached when p starts with the text
_makeRelative(p) ==
  IF _isAbsolute(p) THEN SubSeq(p, Len(RootAsString) + 1, Len(p)) ELSE p

\* _makeAbsolute(p): path.join(this._root, p) with this._root undefined
\* throws a TypeError (path.join takes strings only)
_makeAbsolute(p) ==
  IF ~_isAbsolute(p) THEN [err |-> "TypeError", path |-> <<>>]
  ELSE [err |-> "none", path |-> p]

\* this._directory.isScope(f): does f belong under the parent directory
isScope(f) == StartsWith(f, DirPath)

\* hash(string) of ../common/zettlr-helpers.js
hash(s) == hashTable[s]

\* this._directory.findFile({'path': p}): <<>> is null, <<f>> the file object
FileIndex == {PA, PB}
findFile(p) == IF p \in FileIndex THEN <<[path |-> p]>> ELSE <<>>

----------------------------------------------------------------------------
(* JSON text: a sequence of tokens; a string literal is a quote followed   *)
(* by the characters of the string                                         *)

LBracket == <<"[">>
RBracket == <<"]">>
LBrace == <<"{">>
RBrace == <<"}">>
Quote(s) == <<"\"">> \o s
IsStringToken(tok) == Len(tok) > 0 /\ Head(tok) = "\""
NameKey == Quote(<<"n", "a", "m", "e">>)
FilesKey == Quote(<<"f", "i", "l", "e", "s">>)

StringifyStrings(ss) == [i \in 1..Len(ss) |-> Quote(ss[i])]

StringifyRecord(r) ==
  <<LBrace, NameKey, Quote(r.name), FilesKey, LBracket>>
    \o StringifyStrings(r.files) \o <<RBracket, RBrace>>

RECURSIVE StringifyRecords(_)
StringifyRecords(vds) ==
  IF vds = <<>> THEN <<>>
  ELSE StringifyRecord(Head(vds)) \o StringifyRecords(Tail(vds))

\* JSON.stringify(this._virtualDirectories)
JSONstringify(vds) == <<LBracket>> \o StringifyRecords(vds) \o <<RBracket>>

RECURSIVE ParseStrings(_, _, _)
ParseStrings(toks, i, acc) ==
  IF i <= Len(toks) /\ IsStringToken(toks[i])
  THEN ParseStrings(toks, i + 1, Append(acc, Tail(toks[i])))
  ELSE [val |-> acc, next |-> i]

ParseRecord(toks, i) ==
  IF /\ i + 4 <= Len(toks)
     /\ toks[i] = LBrace
     /\ toks[i + 1] = NameKey
     /\ IsStringToken(toks[i + 2])
     /\ toks[i + 3] = FilesKey
     /\ toks[i + 4] = LBracket
  THEN LET fs == ParseStrings(toks, i + 5, <<>>)
       IN  IF /\ fs.next + 1 <= Len(toks)
              /\ toks[fs.next] = RBracket
              /\ toks[fs.next + 1] = RBrace
           THEN [ok |-> TRUE,
                 val |-> [name |-> Tail(toks[i + 2]), files |-> fs.val],
                 next |-> fs.next + 2]
           ELSE [ok |-> FALSE, val |-> <<>>, next |-> i]
  ELSE [ok |-> FALSE, val |-> <<>>, next |-> i]

RECURSIVE ParseRecords(_, _, _)
ParseRecords(toks, i, acc) ==
  IF i > Len(toks) THEN [ok |-> FALSE, val |-> acc, next |-> i]
  ELSE IF toks[i] = RBracket THEN [ok |-> TRUE, val |-> acc, next |-> i + 1]
  ELSE LET r == ParseRecord(toks, i)
       IN  IF r.ok THEN ParseRecords(toks, r.next, Append(acc, r.val))
           ELSE [ok |-> FALSE, val |-> acc, next |-> i]

\* JSON.parse(text): ok is FALSE when it throws a SyntaxError
JSONparse(toks) ==
  IF Len(toks) >= 2 /\ toks[1] = LBracket
  THEN LET r == ParseRecords(toks, 2, <<>>)
       IN  [ok |-> r.ok /\ r.next = Len(toks) + 1, val |-> r.val]
  ELSE [ok |-> FALSE, val |-> <<>>]

Absent == [exists |-> FALSE, content |-> <<>>]
FileWith(text) == [exists |-> TRUE, content |-> text]

----------------------------------------------------------------------------
(* _refresh, _write, _read *)

\* Line 176: the body of the inner loop declares `let file` again, so the
\* `file` in this._makeAbsolute(file) is the body's own binding, read before
\* it is initialised: a ReferenceError, raised before findFile is called.
ResolveFile(file) == [err |-> "ReferenceError", found |-> <<>>]

\* lines 172-180: the children of one record, until a lookup throws
RECURSIVE Children(_, _, _)
Children(files, i, acc) ==
  IF i > Len(files) THEN [err |-> "none", children |-> acc]
  ELSE LET r == ResolveFile(files[i])
       IN  IF r.err # "none" THEN [err |-> r.err, children |-> acc]
           ELSE Children(files, i + 1, acc \o r.found)

\* lines 168-182: an entry is pushed once its children are complete
RECURSIVE RefreshFrom(_, _, _)
RefreshFrom(vds, i, acc) ==
  IF i > Len(vds) THEN [err |-> "none", real |-> acc]
  ELSE LET dir == vds[i]
           c == Children(dir.files, 1, <<>>)
           real == [name |-> dir.name, children |-> c.children,
                    hash |-> hash(dir.name), type |-> "virtualdir"]
       IN  IF c.err # "none" THEN [err |-> c.err, real |-> acc]
           ELSE RefreshFrom(vds, i + 1, Append(acc, real))

\* _refresh(): this._realDirectories is emptied, then rebuilt from vds
_refresh(vds) == RefreshFrom(vds, 1, <<>>)

\* _write that writes the empty list instead of removing the file
_write_keepsFile(vds) ==
  LET r == _refresh(vds)
  IN  [disk |-> FileWith(JSONstringify(vds)), real |-> r.real,
       err |-> r.err, steps |-> <<"writeFileSync", "_refresh">>]

\* _write with the test of line 145 inverted
_write_inverted(vds) ==
  IF Len(vds) # 0
  THEN IF disk.exists
       THEN LET r == _refresh(vds)
            IN  [disk |-> Absent, real |-> r.real, err |-> r.err,
                 steps |-> <<"unlinkSync", "_refresh">>]
       ELSE [disk |-> disk, real |-> _realDirectories, err |-> "ENOENT",
             steps |-> <<"unlinkSync">>]
  ELSE LET r == _refresh(vds)
       IN  [disk |-> FileWith(JSONstringify(vds)), real |-> r.real,
            err |-> r.err, steps |-> <<"writeFileSync", "_refresh">>]

\* _write() on the record list vds: the file and the view it leaves, the
\* steps it takes and the error it ends in ("none" when it returns)
_write(vds) ==
  IF Len(vds) = 0
  THEN IF disk.exists
       THEN LET r == _refresh(vds)
            IN  [disk |-> Absent, real |-> r.real, err |-> r.err,
                 steps |-> <<"unlinkSync", "_refresh">>]
       ELSE \* fs.unlinkSync throws, _refresh is not reached
            [disk |-> disk, real |-> _realDirectories, err |-> "ENOENT",
             steps |-> <<"unlinkSync">>]
  ELSE LET r == _refresh(vds)
       IN  [disk |-> FileWith(JSONstringify(vds)), real |-> r.real,
            err |-> r.err, steps |-> <<"writeFileSync", "_refresh">>]

\* _read without the lstatSync guard: an absent file is read and parsed
_read_noStat(d) ==
  LET j == JSONparse(d.content)
  IN  IF ~j.ok THEN [vds |-> <<>>, real |-> <<>>, err |-> "SyntaxError"]
      ELSE LET r == _refresh(j.val)
           IN  [vds |-> j.val, real |-> r.real, err |-> r.err]

\* _read with JSON.parse in a try/catch that falls back to no records
_read_swallowsParseError(d) ==
  IF ~d.exists THEN [vds |-> <<>>, real |-> <<>>, err |-> "none"]
  ELSE LET j == JSONparse(d.content)
       IN  IF ~j.ok THEN [vds |-> <<>>, real |-> <<>>, err |-> "none"]
           ELSE LET r == _refresh(j.val)
                IN  [vds |-> j.val, real |-> r.real, err |-> r.err]

\* _read() as the constructor calls it, on the file d: the fields of the
\* new instance and the error the constructor ends in
_read(d) ==
  IF ~d.exists THEN [vds |-> <<>>, real |-> <<>>, err |-> "none"]
  ELSE LET j == JSONparse(d.content)
       IN  IF ~j.ok THEN [vds |-> <<>>, real |-> <<>>, err |-> "SyntaxError"]
           ELSE LET r == _refresh(j.val)
                IN  [vds |-> j.val, real |-> r.real, err |-> r.err]

----------------------------------------------------------------------------
(* add, remove, find *)

\* Array.prototype.find with the case-insensitive name test of lines 55 and
\* 82: the index of the first matching record, 0 when there is none
RECURSIVE FindDirFrom(_, _, _)
FindDirFrom(vds, s, i) ==
  IF i > Len(vds) THEN 0
  ELSE IF toLowerCase(vds[i].name) = toLowerCase(s) THEN i
  ELSE FindDirFrom(vds, s, i + 1)

\* the lookup without toLowerCase
RECURSIVE FindDirExactFrom(_, _, _)
FindDirExactFrom(vds, s, i) ==
  IF i > Len(vds) THEN 0
  ELSE IF vds[i].name = s THEN i
  ELSE FindDirExactFrom(vds, s, i + 1)

FindDir_caseSensitive(vds, s) == FindDirExactFrom(vds, s, 1)

FindDir(vds, s) == FindDirFrom(vds, s, 1)

\* lines 61-66: what the loop pushes to dir.files
RECURSIVE Pushed(_)
Pushed(files) ==
  IF files = <<>> THEN <<>>
  ELSE IF isScope(Head(files))
       THEN <<_makeRelative(Head(files))>> \o Pushed(Tail(files))
       ELSE Pushed(Tail(files))

\* the update with dir.files assigned instead of pushed to
AddUpdate_overwrites(vds, s, files) ==
  LET i == FindDir(vds, s)
      with == IF i = 0 THEN Append(vds, [name |-> s, files |-> <<>>]) ELSE vds
      k == IF i = 0 THEN Len(with) ELSE i
  IN  [with EXCEPT ![k].files = Pushed(files)]

\* the update with unshift for push at line 58: a new record goes first
AddUpdate_unshift(vds, s, files) ==
  LET i == FindDir(vds, s)
      with == IF i = 0 THEN <<[name |-> s, files |-> <<>>]>> \o vds ELSE vds
      k == IF i = 0 THEN 1 ELSE i
  IN  [with EXCEPT ![k].files = @ \o Pushed(files)]

\* lines 55-66: the record list after the in-memory update of add
AddUpdate(vds, s, files) ==
  LET i == FindDir(vds, s)
      with == IF i = 0 THEN Append(vds, [name |-> s, files |-> <<>>]) ELSE vds
      k == IF i = 0 THEN Len(with) ELSE i
  IN  [with EXCEPT ![k].files = @ \o Pushed(files)]

\* splice(indexOf(dir)) without the delete count: removes the tail too
Splice_toEnd(vds, i) == SubSeq(vds, 1, i - 1)

\* line 90: splice(indexOf(dir), 1)
Splice(vds, i) == SubSeq(vds, 1, i - 1) \o SubSeq(vds, i + 1, Len(vds))

NoQuery == [hasHash |-> FALSE, hash |-> "h0"]
NoReader == [vds |-> <<>>, real |-> <<>>]

\* a call: op, its arguments (files is the second argument of add and of
\* remove), what it returned or threw, the steps it took in order, the entry
\* find returned, the fields of the instance a constructor built
Call(op, name, files, query, result, steps, found, reader) ==
  [op |-> op, name |-> name, files |-> files, query |-> query,
   result |-> result, steps |-> steps, found |-> found, reader |-> reader]

\* the test with every name let through
NameIsString_any(name) == TRUE

\* line 50: typeof name != 'string' is false
NameIsString(name) == name.type = "string"

Outcome(err, value) == IF err = "none" THEN value ELSE err

WithinBounds(vds) == \A i \in 1..Len(vds) : Len(vds[i].files) <= MaxFiles

add(name, files) ==
  /\ manager = "constructed"
  /\ IF ~NameIsString(name)
     THEN /\ UNCHANGED <<_virtualDirectories, _realDirectories, disk>>
          /\ last' = Call("add", name, files, NoQuery, "false", <<>>, <<>>,
                          NoReader)
     ELSE LET vds == AddUpdate(_virtualDirectories, name.s, files)
              w == _write(vds)
          IN  /\ WithinBounds(vds)
              /\ _virtualDirectories' = vds
              /\ disk' = w.disk
              /\ _realDirectories' = w.real
              /\ last' = Call("add", name, files, NoQuery,
                              Outcome(w.err, "true"), <<"update">> \o w.steps,
                              <<>>, NoReader)
  /\ UNCHANGED <<manager, hashTable>>

\* remove without the early return of lines 84-86: indexOf(undefined) is -1
\* and splice(-1, 1) removes the last record
remove_noEarlyReturn(name, hashes) ==
  /\ manager = "constructed"
  /\ LET i == FindDir(_virtualDirectories, name.s)
         k == IF i = 0 THEN Len(_virtualDirectories) ELSE i
     IN  IF Len(hashes) = 0
         THEN LET vds == Splice(_virtualDirectories, k)
                  w == _write(vds)
              IN  /\ _virtualDirectories' = vds
                  /\ disk' = w.disk
                  /\ _realDirectories' = w.real
                  /\ last' = Call("remove", name, hashes, NoQuery,
                                  Outcome(w.err, "undefined"),
                                  <<"update">> \o w.steps, <<>>, NoReader)
         ELSE /\ UNCHANGED <<_virtualDirectories, _realDirectories, disk>>
              /\ last' = Call("remove", name, hashes, NoQuery, "TypeError",
                              <<>>, <<>>, NoReader)
  /\ UNCHANGED <<manager, hashTable>>

remove(name, hashes) ==
  /\ manager = "constructed"
  /\ LET i == FindDir(_virtualDirectories, name.s)
     IN  IF i = 0
         THEN /\ UNCHANGED <<_virtualDirectories, _realDirectories, disk>>
              /\ last' = Call("remove", name, hashes, NoQuery, "undefined",
                              <<>>, <<>>, NoReader)
         ELSE IF Len(hashes) = 0
         THEN LET vds == Splice(_virtualDirectories, i)
                  w == _write(vds)
              IN  /\ _virtualDirectories' = vds
                  /\ disk' = w.disk
                  /\ _realDirectories' = w.real
                  /\ last' = Call("remove", name, hashes, NoQuery,
                                  Outcome(w.err, "undefined"),
                                  <<"update">> \o w.steps, <<>>, NoReader)
         ELSE \* line 94: dir is the record {name, files}, which has no
              \* find: calling dir.find throws on the first hash
              /\ "find" \notin DOMAIN _virtualDirectories[i]
              /\ UNCHANGED <<_virtualDirectories, _realDirectories, disk>>
              /\ last' = Call("remove", name, hashes, NoQuery, "TypeError",
                              <<>>, <<>>, NoReader)
  /\ UNCHANGED <<manager, hashTable>>

\* the loop of find without its return: the last match wins
RECURSIVE FindFrom_lastMatch(_, _, _)
FindFrom_lastMatch(real, h, i) ==
  IF i > Len(real) THEN <<>>
  ELSE LET rest == FindFrom_lastMatch(real, h, i + 1)
       IN  IF rest # <<>> THEN rest
           ELSE IF real[i].hash = h THEN <<real[i]>> ELSE <<>>

\* find(obj): <<>> is null, <<dir>> the entry returned
RECURSIVE FindFrom(_, _, _)
FindFrom(real, h, i) ==
  IF i > Len(real) THEN <<>>
  ELSE IF real[i].hash = h THEN <<real[i]>>
  ELSE FindFrom(real, h, i + 1)

find(obj) == IF obj.hasHash THEN FindFrom(_realDirectories, obj.hash, 1) ELSE <<>>

Queries == {NoQuery} \cup {[hasHash |-> TRUE, hash |-> h] : h \in HashValues}

Find(obj) ==
  /\ manager = "constructed"
  /\ last' = Call("find", Num42, <<>>, obj,
                  IF find(obj) = <<>> THEN "null" ELSE "dir", <<>>, find(obj),
                  NoReader)
  /\ UNCHANGED <<_virtualDirectories, _realDirectories, disk, manager, hashTable>>

\* new ZettlrVirtualDirectory(dir) on the same parent directory, while the
\* first instance lives on: the fields of the new instance are last.reader
constructor ==
  /\ manager = "constructed"
  /\ LET r == _read(disk)
     IN  last' = Call("constructor", Num42, <<>>, NoQuery,
                     Outcome(r.err, "constructed"), <<>>, <<>>,
                     [vds |-> r.vds, real |-> r.real])
  /\ UNCHANGED <<_virtualDirectories, _realDirectories, disk, manager, hashTable>>

----------------------------------------------------------------------------
(* Specifications *)

\* the state after construction on the file d
Constructed(d) ==
  LET r == _read(d)
  IN  /\ disk = d
      /\ _virtualDirectories = r.vds
      /\ _realDirectories = r.real
      /\ manager = IF r.err = "none" THEN "constructed" ELSE "failed"
      /\ last = Call("new", Num42, <<>>, NoQuery,
                     Outcome(r.err, "constructed"), <<>>, <<>>, NoReader)

\* construction in a directory without a sidecar file
Init ==
  /\ hashTable \in HashTables
  /\ Constructed(Absent)

Next ==
  \/ \E name \in NameArgs, files \in FileArgs : add(name, files)
  \/ \E s \in NameStrings, hashes \in RefArgs : remove(Str(s), hashes)
  \/ \E obj \in Queries : Find(obj)
  \/ constructor

Spec == Init /\ [][Next]_vars

\* valid sidecar files: JSON lists of records with names unique up to case
\* (the empty list included)
SidecarRecords == [name : NameStrings, files : {<<>>, <<PA>>}]
SidecarLists ==
  {<<>>} \cup {<<r>> : r \in SidecarRecords}
    \cup {<<r, q>> : r \in {x \in SidecarRecords : x.name = XName},
                     q \in {x \in SidecarRecords : x.name # XName}}
SidecarFiles == {Absent} \cup {FileWith(JSONstringify(l)) : l \in SidecarLists}

\* construction in a directory with or without a valid sidecar file
InitFile ==
  /\ hashTable \in HashTables
  /\ \E d \in SidecarFiles : Constructed(d)

SpecFile == InitFile /\ [][Next]_vars

\* sidecar files that are not JSON: texts cut short or starting wrong
MalformedFiles ==
  {FileWith(<<LBracket>>), FileWith(<<LBracket, LBrace>>),
   FileWith(<<RBracket>>),
   FileWith(<<LBracket>> \o StringifyRecords(<<[name |-> XName, files |-> <<>>]>>))}

\* construction in a directory with any sidecar file, or none
InitAnyFile ==
  /\ hashTable \in HashTables
  /\ \E d \in SidecarFiles \cup MalformedFiles : Constructed(d)

SpecAnyFile == InitAnyFile /\ [][Next]_vars

----------------------------------------------------------------------------
(* Claims *)

Mutated == last.op \in {"add", "remove"} /\ last.steps # <<>>
LowerNames(vds) == {toLowerCase(vds[i].name) : i \in 1..Len(vds)}
InScope(files) == SelectSeq(files, isScope)
RelativeForms(files) == [k \in 1..Len(files) |-> _makeRelative(files[k])]

\* C1: after every add or remove call that mutates, an empty record list
\* means the sidecar file does not exist, and a non-empty one means the
\* file's content parses as JSON to exactly the record list.
C1_RoundTrip ==
  Mutated =>
    IF _virtualDirectories = <<>> THEN ~disk.exists
    ELSE /\ disk.exists
         /\ JSONparse(disk.content).ok
         /\ JSONparse(disk.content).val = _virtualDirectories

C1_Witness ==
  /\ last.op = "remove" /\ last.steps # <<>>
  /\ Len(_virtualDirectories) = 1
  /\ Len(_virtualDirectories[1].files) = 2
  /\ disk.exists

\* C2: from an empty record list, no two records have names that are equal
\* when compared case-insensitively.
C2_UniqueNames ==
  \A i, j \in 1..Len(_virtualDirectories) :
    toLowerCase(_virtualDirectories[i].name)
        = toLowerCase(_virtualDirectories[j].name) => i = j

C2_Witness ==
  /\ last.op = "add" /\ NameIsString(last.name)
  /\ Len(_virtualDirectories) = 2
  /\ \E i \in 1..Len(_virtualDirectories) :
       /\ _virtualDirectories[i].name # last.name.s
       /\ toLowerCase(_virtualDirectories[i].name) = toLowerCase(last.name.s)

\* C3: add(name, files) on a name that matches an existing record
\* case-insensitively creates no record; the record keeps its name and its
\* files, and the in-scope files of the call are appended in call order.
C3_AddMerges ==
  [][ (/\ last'.op = "add" /\ NameIsString(last'.name)
       /\ toLowerCase(last'.name.s) \in LowerNames(_virtualDirectories))
      => /\ Len(_virtualDirectories') = Len(_virtualDirectories)
         /\ \A i \in 1..Len(_virtualDirectories) :
              /\ _virtualDirectories'[i].name = _virtualDirectories[i].name
              /\ toLowerCase(_virtualDirectories[i].name)
                     = toLowerCase(last'.name.s)
                 => _virtualDirectories'[i].files
                      = _virtualDirectories[i].files
                          \o RelativeForms(InScope(last'.files)) ]_vars

C3_Witness ==
  /\ last.op = "add" /\ NameIsString(last.name)
  /\ Len(InScope(last.files)) = 1
  /\ \E i \in 1..Len(_virtualDirectories) :
       /\ _virtualDirectories[i].name # last.name.s
       /\ toLowerCase(_virtualDirectories[i].name) = toLowerCase(last.name.s)
       /\ Len(_virtualDirectories[i].files) = 2

\* C4: for a string X and a file f in scope that the parent directory can
\* find, after add(X, [f]) find({hash: hash(X)}) returns an entry named X
\* whose children contain the file object of f.
C4_AddThenFind ==
  (/\ last.op = "add" /\ NameIsString(last.name)
   /\ Len(last.files) = 1
   /\ isScope(last.files[1]) /\ findFile(last.files[1]) # <<>>)
  => /\ last.result = "true"
     /\ LET r == find([hasHash |-> TRUE, hash |-> hash(last.name.s)])
        IN  /\ r # <<>>
            /\ r[1].name = last.name.s
            /\ \E k \in 1..Len(r[1].children) :
                 r[1].children[k] = findFile(last.files[1])[1]

\* C5: add with a string name returns true for every files argument; the
\* references failing isScope are omitted, the record exists afterwards and
\* the change is persisted.
C5_AddReturnsTrue ==
  (last.op = "add" /\ NameIsString(last.name))
  => /\ last.result = "true"
     /\ toLowerCase(last.name.s) \in LowerNames(_virtualDirectories)
     /\ \A i \in 1..Len(_virtualDirectories) :
          \A k \in 1..Len(_virtualDirectories[i].files) :
            _virtualDirectories[i].files[k]
              \in {_makeRelative(f) : f \in {g \in Paths : isScope(g)}}
     /\ disk = FileWith(JSONstringify(_virtualDirectories))

\* a remove(name) step with empty hashes that finds its record
RemovesRecord ==
  /\ last'.op = "remove" /\ last'.files = <<>>
  /\ toLowerCase(last'.name.s) \in LowerNames(_virtualDirectories)

\* the record at i is gone and every other record is as it was
RecordDeleted(i) ==
  /\ Len(_virtualDirectories') = Len(_virtualDirectories) - 1
  /\ \A j \in 1..Len(_virtualDirectories') :
       _virtualDirectories'[j]
         = _virtualDirectories[IF j < i THEN j ELSE j + 1]

C7_RemoveRefs ==
  (/\ last.op = "remove" /\ last.files # <<>>
   /\ toLowerCase(last.name.s) \in LowerNames(_virtualDirectories))
  => /\ last.result = "undefined"
     /\ \A i \in 1..Len(_virtualDirectories) :
          toLowerCase(_virtualDirectories[i].name) = toLowerCase(last.name.s)
          => \A k \in 1..Len(_virtualDirectories[i].files) :
               \A h \in 1..Len(last.files) :
                 _virtualDirectories[i].files[k] # last.files[h]
     /\ last.steps = <<"update", "writeFileSync", "_refresh">>

\* C8: add with a non-string name returns false and changes nothing: the
\* record list, the derived view and the sidecar file are as before, and no
\* file write or delete is performed.
C8_AddNonString ==
  [][ (last'.op = "add" /\ last'.name.type # "string")
      => /\ last'.result = "false"
         /\ last'.steps = <<>>
         /\ UNCHANGED <<_virtualDirectories, _realDirectories, disk>> ]_vars

C8_Witness ==
  /\ last.op = "add" /\ last.name = Num42 /\ last.result = "false"
  /\ last.files = <<PB, PA>>
  /\ Len(_virtualDirectories) = 1

\* C9: after add/remove calls that leave a valid sidecar file, constructing
\* a new manager on the same parent directory produces a record list and a
\* derived view equal to the writer's.
C9_ReadAfterWrite ==
  (last.op = "constructor" /\ disk.exists /\ JSONparse(disk.content).ok)
  => /\ last.result = "constructed"
     /\ last.reader.vds = _virtualDirectories
     /\ last.reader.real = _realDirectories

\* C10: remove(name, refs) when no record matches name case-insensitively
\* is a silent no-op for every refs: no error, the record list, the derived
\* view and the sidecar file unchanged, no write or delete performed.
C10_RemoveUnknown ==
  [][ (/\ last'.op = "remove"
       /\ toLowerCase(last'.name.s) \notin LowerNames(_virtualDirectories))
      => /\ last'.result = "undefined"
         /\ last'.steps = <<>>
         /\ UNCHANGED <<_virtualDirectories, _realDirectories, disk>> ]_vars

C10_Witness ==
  /\ last.op = "remove" /\ last.result = "undefined" /\ last.steps = <<>>
  /\ last.files = <<PB, PA>>
  /\ Len(_virtualDirectories) = 1
  /\ toLowerCase(last.name.s) \notin LowerNames(_virtualDirectories)

\* the absolute form of a stored path, and the view the record list
\* rebuilds to: per record its name, hash and type, and as children the file
\* objects the parent directory finds for the stored paths, in stored order
AbsolutePath(p) == IF StartsWith(p, DirPath) THEN p ELSE DirPath \o p

RECURSIVE FoundChildren(_)
FoundChildren(files) ==
  IF files = <<>> THEN <<>>
  ELSE findFile(AbsolutePath(Head(files))) \o FoundChildren(Tail(files))

RebuiltView(vds) ==
  [i \in 1..Len(vds) |->
     [name |-> vds[i].name, children |-> FoundChildren(vds[i].files),
      hash |-> hash(vds[i].name), type |-> "virtualdir"]]

\* C11: after construction and after every add or remove, the derived view
\* is exactly the rebuild of the record list: one entry per record in record
\* order, with the record's name, hash(name), type "virtualdir" and as
\* children the file objects found for the stored paths, in stored order.
C11_ViewIsRebuild ==
  last.op \in {"new", "add", "remove"}
  => _realDirectories = RebuiltView(_virtualDirectories)

\* C12: from an empty record list, every stored path is relative to the
\* directory's root (it does not start with the root prefix) and is the
\* relative form of a reference that passed isScope.
C12_StoredPathsRelative ==
  \A i \in 1..Len(_virtualDirectories) :
    \A k \in 1..Len(_virtualDirectories[i].files) :
      LET p == _virtualDirectories[i].files[k]
      IN  /\ ~StartsWith(p, DirPath)
          /\ \E f \in Paths : isScope(f) /\ AbsolutePath(p) = f

\* C13: constructing a manager where the sidecar file is absent raises no
\* error, leaves the record list and the derived view empty, and does not
\* create the file (the constructor writes nothing).
C13_ConstructAbsent ==
  (last.op \in {"new", "constructor"} /\ ~disk.exists)
  => /\ last.result = "constructed"
     /\ last.steps = <<>>
     /\ last.op = "new"
        => _virtualDirectories = <<>> /\ _realDirectories = <<>>
     /\ last.op = "constructor"
        => last.reader.vds = <<>> /\ last.reader.real = <<>>

C13_Witness ==
  /\ last.op = "constructor" /\ ~disk.exists
  /\ last.result = "constructed"
  /\ last.reader = NoReader

\* C14: find(query) returns the first entry of the derived view, in view
\* order, whose hash equals query.hash, and null when none matches or the
\* query has no hash; it changes neither list, view nor file.
C14_FindFirstMatch ==
  [][ last'.op = "find"
      => /\ UNCHANGED <<_virtualDirectories, _realDirectories, disk>>
         /\ LET q == last'.query
                hits == {k \in 1..Len(_realDirectories) :
                           _realDirectories[k].hash = q.hash}
            IN  IF ~q.hasHash \/ hits = {}
                THEN last'.found = <<>> /\ last'.result = "null"
                ELSE \E k \in hits :
                       /\ \A j \in hits : k <= j
                       /\ last'.found = <<_realDirectories[k]>> ]_vars

C14_Witness ==
  /\ last.op = "find" /\ last.query.hasHash
  /\ Len(_realDirectories) = 2
  /\ _realDirectories[1].hash = _realDirectories[2].hash
  /\ last.found = <<_realDirectories[1]>>

Errors == {"ReferenceError", "TypeError", "ENOENT", "SyntaxError"}
StepSet(steps) == {steps[k] : k \in 1..Len(steps)}

\* C15: every add with a string name and every remove that finds its record
\* performs, in this order, the in-memory update, exactly one write (list
\* non-empty) or delete (list empty) of the sidecar file, and one full
\* rebuild of the view, and returns only after the rebuild.
C15_StepOrder ==
  (\/ last.op = "add" /\ last.name.type = "string"
   \/ /\ last.op = "remove"
      /\ \/ last.steps # <<>>
         \/ toLowerCase(last.name.s) \in LowerNames(_virtualDirectories))
  => /\ last.steps
          = <<"update",
              IF _virtualDirectories = <<>> THEN "unlinkSync"
              ELSE "writeFileSync",
              "_refresh">>
     /\ last.result \notin Errors

\* C16: constructing a manager on a sidecar file holding malformed JSON ends
\* in the parse error: no instance, no recovery to an empty state, nothing
\* written.
C16_MalformedThrows ==
  (last.op = "new" /\ disk \in MalformedFiles)
  => /\ last.result = "SyntaxError"
     /\ manager = "failed"
     /\ last.steps = <<>>

C16_Witness ==
  /\ last.op = "new" /\ manager = "failed"
  /\ disk = FileWith(<<LBracket, LBrace>>)

\* C17: on a manager constructed over an absent sidecar file or a valid
\* one, the delete branch of the persist step is only taken while the
\* sidecar file exists, so the delete never fails for a missing file.
C17_DeleteOnlyExisting ==
  [][ "unlinkSync" \in StepSet(last'.steps)
      => disk.exists /\ last'.result # "ENOENT" /\ ~disk'.exists ]_vars

C17_Witness ==
  /\ last.op = "remove" /\ "unlinkSync" \in StepSet(last.steps)
  /\ last.result = "undefined"
  /\ ~disk.exists /\ _virtualDirectories = <<>>

\* C18: add(name, files) changes at most the record matching name
\* case-insensitively: every other record keeps name, files and position, a
\* new record is placed at the end, and the matching record's earlier files
\* stay as a prefix of its files.
C18_AddFrame ==
  [][ (last'.op = "add" /\ last'.name.type = "string")
      => /\ Len(_virtualDirectories')
              = IF toLowerCase(last'.name.s) \in LowerNames(_virtualDirectories)
                THEN Len(_virtualDirectories)
                ELSE Len(_virtualDirectories) + 1
         /\ \A i \in 1..Len(_virtualDirectories) :
              LET old == _virtualDirectories[i]
                  new == _virtualDirectories'[i]
              IN  /\ new.name = old.name
                  /\ Len(new.files) >= Len(old.files)
                  /\ SubSeq(new.files, 1, Len(old.files)) = old.files
                  /\ toLowerCase(old.name) # toLowerCase(last'.name.s)
                     => new = old
         /\ Len(_virtualDirectories') > Len(_virtualDirectories)
            => _virtualDirectories'[Len(_virtualDirectories')].name
                 = last'.name.s ]_vars

C18_Witness ==
  /\ last.op = "add" /\ last.name.type = "string"
  /\ Len(InScope(last.files)) = 1
  /\ Len(_virtualDirectories) = 2
  /\ Len(_virtualDirectories[1].files) = 2
  /\ _virtualDirectories[2]
       = [name |-> last.name.s, files |-> RelativeForms(InScope(last.files))]

\* C19: whenever an add or remove call ends by raising an error, the record
\* list, the sidecar file and the derived view are the same as before the
\* call.
C19_FailureAtomic ==
  [][ (last'.op \in {"add", "remove"} /\ last'.result \in Errors)
      => UNCHANGED <<_virtualDirectories, disk, _realDirectories>> ]_vars

============================================================================
